---- MODULE Spec2Model ----
(***************************************************************************)
(* A model of src/reddit_code.py: the two fetchers download_hot_posts and  *)
(* search_posts, the persister save_to_csv and the __main__ driver.        *)
(*                                                                         *)
(* Python is dynamically typed, so every Python value is one record        *)
(*   [t |-> type name, s |-> characters, n |-> number, items |-> elements] *)
(* A str is its sequence of characters; a float carries n in hundredths;   *)
(* a bool carries n = 1 or 0 (bool is a subclass of int); a list's items   *)
(* are Python values or dicts (TLA+ records keyed by the dict's keys).     *)
(***************************************************************************)
EXTENDS Integers, Sequences, FiniteSets, TLC

VARIABLES
    pc,               \* position inside the running fetcher
    fn,               \* which fetcher is running
    query,            \* its arguments
    subreddit_names,
    limit,
    i,                \* index of the forum of the current loop iteration
    post_count,       \* posts appended for the current forum
    acc,              \* hot_posts / keyword_posts, the local accumulator
    result,           \* how the fetcher ended: a return value or an exception
    calls,            \* the client handle's log of the calls made on it
    console,          \* the lines printed
    reddit,           \* what the client handle serves
    dpc,              \* position of the __main__ driver
    config,
    hot_posts,
    search_results,
    all_collected,
    final_df,
    crash,            \* the unhandled exception that ended the driver
    spc,              \* position of a direct caller of save_to_csv
    save_arg,         \* the all_posts argument of the last save_to_csv call
    file              \* the output file on disk

vars == <<pc, fn, query, subreddit_names, limit, i, post_count, acc, result,
          calls, console, reddit, dpc, config, hot_posts, search_results,
          all_collected, final_df, crash, spc, save_arg, file>>

fetchVars == <<pc, fn, query, subreddit_names, limit, i, post_count, acc,
               result, calls>>
driverVars == <<dpc, config, hot_posts, search_results, all_collected, crash>>
saveVars == <<final_df, save_arg, file>>

-----------------------------------------------------------------------------
(* Bounds of the model and constants of the program. *)

\* Posts a listing of the client of the fetcher runs holds at most.
MaxYield == 2
\* Posts a listing of the client of the driver run holds at most.
DriverMaxYield == 1
\* Longest list handed to save_to_csv by a direct caller.
MaxPosts == 3
\* limit=10, the default of both fetchers.
DefaultLimit == 10
\* post.selftext[:500]
SelftextLimit == 500

-----------------------------------------------------------------------------
(* Python values. *)

PyStr(chars) == [t |-> "str", s |-> chars, n |-> 0, items |-> <<>>]
PyInt(k) == [t |-> "int", s |-> <<>>, n |-> k, items |-> <<>>]
PyFloat(hundredths) == [t |-> "float", s |-> <<>>, n |-> hundredths, items |-> <<>>]
PyBool(b) == [t |-> "bool", s |-> <<>>, n |-> IF b THEN 1 ELSE 0, items |-> <<>>]
PyList(xs) == [t |-> "list", s |-> <<>>, n |-> 0, items |-> xs]
PyTuple(xs) == [t |-> "tuple", s |-> <<>>, n |-> 0, items |-> xs]
PyNone == [t |-> "none", s |-> <<>>, n |-> 0, items |-> <<>>]
\* The missing value pandas puts in a cell no record supplied.
PyNaN == [t |-> "nan", s |-> <<>>, n |-> 0, items |-> <<>>]
PyFalse == PyBool(FALSE)
PyTrue == PyBool(TRUE)
\* A variable no statement has assigned yet.
Unset == [t |-> "unset", s |-> <<>>, n |-> 0, items |-> <<>>]

\* bool(v), the test behind `not v` and `v if v else None`.
Truthy(v) ==
    CASE v.t = "str" -> v.s # <<>>
      [] v.t \in {"int", "bool", "float"} -> v.n # 0
      [] v.t \in {"list", "tuple"} -> v.items # <<>>
      [] v.t = "none" -> FALSE
      [] OTHER -> TRUE

\* isinstance(v, cls) for the three classes the validation names.
IsInstance(v, cls) ==
    CASE cls = "list" -> v.t = "list"
      [] cls = "str" -> v.t = "str"
      [] cls = "int" -> v.t \in {"int", "bool"}
      [] OTHER -> FALSE

IsNumber(v) == v.t \in {"int", "bool", "float"}

\* a + b. Numbers add (bool + bool is an int), sequences of one type
\* concatenate, anything else is a TypeError.
PyAddListsOnly(a, b) ==
    CASE a.t = "list" /\ b.t = "list" -> [ok |-> TRUE, val |-> PyList(a.items \o b.items)]
      [] OTHER -> [ok |-> FALSE, val |-> Unset]
PyAdd(a, b) ==
    CASE a.t = "list" /\ b.t = "list" -> [ok |-> TRUE, val |-> PyList(a.items \o b.items)]
      [] a.t = "tuple" /\ b.t = "tuple" -> [ok |-> TRUE, val |-> PyTuple(a.items \o b.items)]
      [] a.t = "str" /\ b.t = "str" -> [ok |-> TRUE, val |-> PyStr(a.s \o b.s)]
      [] a.t \in {"int", "bool"} /\ b.t \in {"int", "bool"} ->
            [ok |-> TRUE, val |-> PyInt(a.n + b.n)]
      [] IsNumber(a) /\ IsNumber(b) ->
            [ok |-> TRUE,
             val |-> PyFloat((IF a.t = "float" THEN a.n ELSE 100 * a.n)
                             + (IF b.t = "float" THEN b.n ELSE 100 * b.n))]
      [] OTHER -> [ok |-> FALSE, val |-> Unset]

Min(a, b) == IF a < b THEN a ELSE b

-----------------------------------------------------------------------------
(* The posts a client handle can serve.  A post carries the attributes the  *)
(* fetchers read, and its own subreddit, which they do not read.            *)

Post(title, score, permalink, selftext, is_self) ==
    [title |-> PyStr(title),
     score |-> PyInt(score),
     upvote_ratio |-> IF score = 0 THEN PyFloat(0) ELSE PyFloat(93),
     num_comments |-> PyInt(score),
     author |-> IF score = 0 THEN PyNone ELSE PyStr(<<"u">>),
     subreddit |-> PyStr(<<"O", "t", "h", "e", "r">>),
     url |-> PyStr(permalink),
     permalink |-> PyStr(permalink),
     created_utc |-> IF score = 0 THEN PyFloat(0) ELSE PyFloat(170000),
     is_self |-> PyBool(is_self),
     selftext |-> PyStr(selftext),
     link_flair_text |-> IF is_self THEN PyStr(<<"f">>) ELSE PyNone,
     domain |-> IF is_self THEN PyStr(<<"d">>) ELSE PyStr(<<>>)]

PostA == Post(<<"t", "1">>, 5, <<"/", "a">>, <<"h", "e", "y">>, TRUE)
\* Every attribute falsy.
PostFalsy == Post(<<>>, 0, <<>>, <<>>, FALSE)
\* Another post under PostA's permalink.
PostA2 == Post(<<"t", "3">>, 7, <<"/", "a">>, <<>>, FALSE)
PostB == Post(<<"t", "4">>, 1, <<"/", "b">>, <<"y", "o">>, TRUE)
\* Another post with no permalink.
PostNoLink == Post(<<"t", "5">>, 2, <<>>, <<"h", "i">>, TRUE)

FetchPosts == {PostA, PostFalsy}
\* The driver run's client serves one post, any number of times.
DriverPosts == {PostA}
SavePosts == {PostA, PostFalsy, PostA2, PostB, PostNoLink}

ML == PyStr(<<"M", "L">>)
AI == PyStr(<<"A", "I">>)
OpenAI == PyStr(<<"O", "A", "I">>)
GPT4 == PyStr(<<"G", "P", "T", "-", "4">>)

-----------------------------------------------------------------------------
(* Building a record from a post. *)

\* x if x else None
OrNone(v) == IF Truthy(v) THEN v ELSE PyNone

\* text[:k]
Slice(v, k) == PyStr(SubSeq(v.s, 1, Min(Len(v.s), k)))

HotRecordFromPost(post, subreddit_name) ==
    [title |-> OrNone(post.title),
     score |-> OrNone(post.score),
     upvote_ratio |-> OrNone(post.upvote_ratio),
     num_comments |-> OrNone(post.num_comments),
     author |-> OrNone(post.author),
     subreddit |-> post.subreddit,
     url |-> OrNone(post.url),
     permalink |-> OrNone(post.permalink),
     created_utc |-> OrNone(post.created_utc),
     is_self |-> OrNone(post.is_self),
     selftext |-> IF Truthy(post.selftext)
                  THEN Slice(post.selftext, SelftextLimit) ELSE PyNone,
     flair |-> OrNone(post.link_flair_text),
     domain |-> OrNone(post.domain)]
HotRecord(post, subreddit_name) ==
    [title |-> OrNone(post.title),
     score |-> OrNone(post.score),
     upvote_ratio |-> OrNone(post.upvote_ratio),
     num_comments |-> OrNone(post.num_comments),
     author |-> OrNone(post.author),
     subreddit |-> subreddit_name,
     url |-> OrNone(post.url),
     permalink |-> OrNone(post.permalink),
     created_utc |-> OrNone(post.created_utc),
     is_self |-> OrNone(post.is_self),
     selftext |-> IF Truthy(post.selftext)
                  THEN Slice(post.selftext, SelftextLimit) ELSE PyNone,
     flair |-> OrNone(post.link_flair_text),
     domain |-> OrNone(post.domain)]

SearchRecord(post, subreddit_name, q) ==
    [title |-> OrNone(post.title),
     score |-> OrNone(post.score),
     upvote_ratio |-> OrNone(post.upvote_ratio),
     num_comments |-> OrNone(post.num_comments),
     author |-> OrNone(post.author),
     subreddit |-> subreddit_name,
     url |-> OrNone(post.url),
     permalink |-> OrNone(post.permalink),
     created_utc |-> OrNone(post.created_utc),
     is_self |-> OrNone(post.is_self),
     selftext |-> IF Truthy(post.selftext)
                  THEN Slice(post.selftext, SelftextLimit) ELSE PyNone,
     flair |-> OrNone(post.link_flair_text),
     domain |-> OrNone(post.domain),
     search_query |-> q]

\* The keys of the two dict literals, in the order they are written.
HotKeys == <<"title", "score", "upvote_ratio", "num_comments", "author",
             "subreddit", "url", "permalink", "created_utc", "is_self",
             "selftext", "flair", "domain">>
SearchKeys == Append(HotKeys, "search_query")

-----------------------------------------------------------------------------
(* Input validation, the statements before the try block. *)

Ok == "ok"

BadName(names) ==
    \E k \in 1..Len(names.items) :
        ~Truthy(names.items[k]) \/ ~IsInstance(names.items[k], "str")

ValidateNames(names) ==
    IF ~Truthy(names) \/ ~IsInstance(names, "list")
    THEN "Subreddit names must be a non-empty list"
    ELSE IF BadName(names)
    THEN "Subreddit name must be a non-empty string"
    ELSE Ok

ValidateLimit(lim) ==
    IF ~IsInstance(lim, "int") \/ lim.n <= 0
    THEN "Limit must be a positive integer"
    ELSE Ok

ValidateQuery(q) ==
    IF ~Truthy(q) \/ ~IsInstance(q, "str")
    THEN "Query must be a non-empty string"
    ELSE Ok

ValidateHotNoLimit(names, lim) == ValidateNames(names)
ValidateHot(names, lim) ==
    IF ValidateNames(names) # Ok THEN ValidateNames(names)
    ELSE ValidateLimit(lim)

ValidateSearch(q, names, lim) ==
    IF ValidateQuery(q) # Ok THEN ValidateQuery(q)
    ELSE ValidateHot(names, lim)

-----------------------------------------------------------------------------
(* How a fetcher ends, and the except clauses. *)

NoResult == [kind |-> "none", val |-> Unset, exc |-> "", msg |-> ""]
Return(v) == [kind |-> "return", val |-> v, exc |-> "", msg |-> ""]
Raise(e, m) == [kind |-> "raise", val |-> Unset, exc |-> e, msg |-> m]

\* The exceptions a client call can raise: subclasses of Exception.  Each
\* name stands for its class; "Exception" for any class none of the first
\* three except clauses names.
ClientErrors == {"PRAWException", "ValueError", "FileNotFoundError", "Exception"}

\* The first except clause that matches, by the line it prints.
HandlerMessage(e) ==
    CASE e = "PRAWException" -> "Reddit API error"
      [] e = "ValueError" -> "Input validation error"
      [] e = "FileNotFoundError" -> "File error"
      [] OTHER -> "Unexpected error"

\* What every except clause returns; the accumulator is dropped.
ExceptReturnPartial(posts) == PyList(posts)
ExceptReturn(posts) == PyFalse

\* hot_posts.append(record)
AccumulateFront(posts, rec) == <<rec>> \o posts
Accumulate(posts, rec) == Append(posts, rec)

-----------------------------------------------------------------------------
(* The client handle.  It logs every call made on it; a listing yields at   *)
(* most the limit it was asked for and at most reddit.cap posts.            *)

Entry(op, out, post, exc) ==
    [op |-> op, forum |-> i, name |-> subreddit_names.items[i],
     limit |-> limit, query |-> IF op = "search" THEN query ELSE PyNone,
     out |-> out, post |-> post, exc |-> exc]

ListingOp == IF fn = "download_hot_posts" THEN "hot" ELSE "search"

-----------------------------------------------------------------------------
(* The fetchers, statement by statement. *)

\* def download_hot_posts / def search_posts up to the try: the call and
\* its validation.
Enter(f, q, names, lim) ==
    LET err == IF f = "download_hot_posts" THEN ValidateHot(names, lim)
               ELSE ValidateSearch(q, names, lim)
    IN /\ fn' = f
       /\ query' = q
       /\ subreddit_names' = names
       /\ limit' = lim
       /\ calls' = <<>>
       /\ acc' = <<>>
       /\ post_count' = 0
       /\ IF err # Ok
          THEN /\ pc' = "ret"
               /\ i' = 0
               /\ result' = Raise("ValueError", err)
          ELSE /\ pc' = "for"
               /\ i' = 1
               /\ result' = NoResult

\* An exception raised inside the try block reaches its except clause.
HandleReraise(e) ==
    /\ console' = console
    /\ result' = Raise(e, "")
    /\ pc' = "ret"
Handle(e) ==
    /\ console' = Append(console, HandlerMessage(e))
    /\ result' = Return(ExceptReturn(acc))
    /\ pc' = "ret"

\* subreddit = reddit.subreddit(subreddit_name)
SubredditOk ==
    /\ pc = "for"
    /\ i <= Len(subreddit_names.items)
    /\ calls' = Append(calls, Entry("subreddit", "ok", <<>>, ""))
    /\ pc' = "listing"
    /\ UNCHANGED <<fn, query, subreddit_names, limit, i, post_count, acc,
                   result, console, reddit>>
    /\ UNCHANGED <<driverVars, saveVars, spc>>

SubredditRaises ==
    /\ pc = "for"
    /\ i <= Len(subreddit_names.items)
    /\ \E e \in ClientErrors :
        /\ calls' = Append(calls, Entry("subreddit", "raise", <<>>, e))
        /\ Handle(e)
    /\ UNCHANGED <<fn, query, subreddit_names, limit, i, post_count, acc, reddit>>
    /\ UNCHANGED <<driverVars, saveVars, spc>>

\* posts = subreddit.hot(limit=limit)
\* posts = subreddit.search(query, limit=limit, sort="relevance")
\* and the print that follows.
ListingOk ==
    /\ pc = "listing"
    /\ calls' = Append(calls, Entry(ListingOp, "ok", <<>>, ""))
    /\ console' = Append(console, "Downloading")
    /\ post_count' = 0
    /\ pc' = "iter"
    /\ UNCHANGED <<fn, query, subreddit_names, limit, i, acc, result, reddit>>
    /\ UNCHANGED <<driverVars, saveVars, spc>>

ListingRaises ==
    /\ pc = "listing"
    /\ \E e \in ClientErrors :
        /\ calls' = Append(calls, Entry(ListingOp, "raise", <<>>, e))
        /\ Handle(e)
    /\ UNCHANGED <<fn, query, subreddit_names, limit, i, post_count, acc, reddit>>
    /\ UNCHANGED <<driverVars, saveVars, spc>>

\* for post in posts: the listing yields one more post, and the loop body
\* appends its record.
NextPost ==
    /\ pc = "iter"
    /\ post_count < Min(limit.n, reddit.cap)
    /\ \E post \in reddit.posts :
        /\ calls' = Append(calls, Entry("next", "yield", <<post>>, ""))
        /\ acc' = Accumulate(acc,
                     IF fn = "download_hot_posts"
                     THEN HotRecord(post, subreddit_names.items[i])
                     ELSE SearchRecord(post, subreddit_names.items[i], query))
    /\ post_count' = post_count + 1
    /\ UNCHANGED <<pc, fn, query, subreddit_names, limit, i, result, console, reddit>>
    /\ UNCHANGED <<driverVars, saveVars, spc>>

\* for post in posts: the listing is exhausted; the print after the loop,
\* and on to the next forum.
NextStop ==
    /\ pc = "iter"
    /\ calls' = Append(calls, Entry("next", "stop", <<>>, ""))
    /\ console' = Append(console, "Successfully downloaded")
    /\ i' = i + 1
    /\ pc' = "for"
    /\ UNCHANGED <<fn, query, subreddit_names, limit, post_count, acc, result, reddit>>
    /\ UNCHANGED <<driverVars, saveVars, spc>>

\* for post in posts: fetching the next post raises.
NextRaises ==
    /\ pc = "iter"
    /\ \E e \in ClientErrors :
        /\ calls' = Append(calls, Entry("next", "raise", <<>>, e))
        /\ Handle(e)
    /\ UNCHANGED <<fn, query, subreddit_names, limit, i, post_count, acc, reddit>>
    /\ UNCHANGED <<driverVars, saveVars, spc>>

\* return hot_posts / return keyword_posts
FetchReturn ==
    /\ pc = "for"
    /\ i > Len(subreddit_names.items)
    /\ result' = Return(PyList(acc))
    /\ pc' = "ret"
    /\ UNCHANGED <<fn, query, subreddit_names, limit, i, post_count, acc,
                   calls, console, reddit>>
    /\ UNCHANGED <<driverVars, saveVars, spc>>

-----------------------------------------------------------------------------
(* A caller of the fetchers other than the driver: any arguments. *)

NameArgs ==
    {PyList(<<ML>>), PyList(<<ML, AI>>), PyList(<<>>), PyNone, ML,
     PyTuple(<<ML>>), PyList(<<PyStr(<<>>)>>), PyList(<<ML, PyInt(3)>>)}

LimitArgs ==
    {PyInt(1), PyInt(2), PyInt(3), PyTrue, PyInt(0), PyInt(-1), PyFloat(250),
     PyStr(<<"5">>), PyNone, PyFalse}

QueryArgs == {GPT4, PyStr(<<>>), PyNone, PyInt(4)}

CallHot ==
    /\ pc = "idle"
    /\ \E names \in NameArgs, lim \in LimitArgs :
        Enter("download_hot_posts", PyNone, names, lim)
    /\ UNCHANGED <<console, reddit>>
    /\ UNCHANGED <<driverVars, saveVars, spc>>

CallSearch ==
    /\ pc = "idle"
    /\ \E q \in QueryArgs, names \in NameArgs, lim \in LimitArgs :
        Enter("search_posts", q, names, lim)
    /\ UNCHANGED <<console, reddit>>
    /\ UNCHANGED <<driverVars, saveVars, spc>>

\* The caller has the outcome; the next call starts afresh.
Finish ==
    /\ pc = "ret"
    /\ pc' = "idle"
    /\ fn' = "none"
    /\ query' = Unset
    /\ subreddit_names' = Unset
    /\ limit' = Unset
    /\ i' = 0
    /\ post_count' = 0
    /\ acc' = <<>>
    /\ result' = NoResult
    /\ calls' = <<>>
    /\ console' = <<>>
    /\ UNCHANGED reddit
    /\ UNCHANGED <<driverVars, saveVars, spc>>

InitCommon ==
    /\ pc = "idle"
    /\ fn = "none"
    /\ query = Unset
    /\ subreddit_names = Unset
    /\ limit = Unset
    /\ i = 0
    /\ post_count = 0
    /\ acc = <<>>
    /\ result = NoResult
    /\ calls = <<>>
    /\ console = <<>>
    /\ config = "unset"
    /\ hot_posts = Unset
    /\ search_results = Unset
    /\ all_collected = Unset
    /\ final_df = Unset
    /\ crash = ""
    /\ save_arg = Unset

-----------------------------------------------------------------------------
(* save_to_csv.  A DataFrame is its column names, in order, and its rows,   *)
(* each a function from the column names to cells.  The callers modelled    *)
(* pass a list of fetcher records, None or 0; writing the file is taken to  *)
(* succeed.                                                                 *)

Range(seq) == {seq[k] : k \in 1..Len(seq)}

\* Missing in pandas' sense: None or NaN.
IsNa(v) == v.t \in {"none", "nan"}

\* pd.DataFrame(all_posts): the columns are the keys of the dicts in order
\* of first appearance; a cell whose dict lacks the key is NaN.
ColumnsSuperset(items) == SearchKeys
Columns(items) ==
    LET keys == UNION {DOMAIN items[k] : k \in 1..Len(items)}
    IN SelectSeq(SearchKeys, LAMBDA c : c \in keys)

ToRow(rec, cols) ==
    [c \in Range(cols) |-> IF c \in DOMAIN rec THEN rec[c] ELSE PyNaN]

DataFrame(items) ==
    [t |-> "DataFrame",
     columns |-> Columns(items),
     rows |-> [k \in 1..Len(items) |-> ToRow(items[k], Columns(items))]]

\* Two cells are the same key for drop_duplicates: equal, or both missing.
SameKeyNaDistinct(a, b) == a = b /\ ~IsNa(a)
SameKey(a, b) == (IsNa(a) /\ IsNa(b)) \/ a = b

\* df.drop_duplicates(subset=..., inplace=True), keep="first" by default.
RECURSIVE KeepFirst(_, _, _)
KeepFirst(rows, subset, seen) ==
    IF rows = <<>> THEN <<>>
    ELSE LET r == Head(rows)
         IN IF \E s \in seen : SameKey(s, r[subset])
            THEN KeepFirst(Tail(rows), subset, seen)
            ELSE <<r>> \o KeepFirst(Tail(rows), subset, seen \cup {r[subset]})

RECURSIVE KeepLast(_, _)
KeepLast(rows, subset) ==
    IF rows = <<>> THEN <<>>
    ELSE LET r == Head(rows)
             rest == Tail(rows)
         IN IF \E k \in 1..Len(rest) : SameKey(rest[k][subset], r[subset])
            THEN KeepLast(rest, subset)
            ELSE <<r>> \o KeepLast(rest, subset)

DropDuplicatesKeepLast(rows, subset) == KeepLast(rows, subset)
DropDuplicates(rows, subset) == KeepFirst(rows, subset, {})

\* A cell as to_csv writes it: a missing value is an empty field; any
\* other value stands for its text.
CsvField(v) == IF IsNa(v) THEN PyStr(<<>>) ELSE v

\* df.to_csv(filename, index=False): the header row, then one line a row.
ToCsv(df) ==
    [exists |-> TRUE,
     header |-> df.columns,
     lines |-> [k \in 1..Len(df.rows) |->
                  [c \in 1..Len(df.columns) |-> CsvField(df.rows[k][df.columns[c]])]]]

NoFile == [exists |-> FALSE, header |-> <<>>, lines |-> <<>>]
\* A file an earlier run left behind.
StaleFile ==
    [exists |-> TRUE, header |-> <<"title">>,
     lines |-> <<[c \in 1..1 |-> PyStr(<<"o", "l", "d">>)]>>]

\* The whole of save_to_csv: what it returns, the file afterwards, and the
\* lines it prints.
SaveToCsvNoGuard(all_posts, f) ==
    LET df == DataFrame(all_posts.items)
        dd == [df EXCEPT !.rows = DropDuplicates(df.rows, "permalink")]
    IN [ret |-> dd, file |-> ToCsv(dd), out |-> <<"Data saved successfully">>]
SaveToCsv(all_posts, f) ==
    IF ~Truthy(all_posts)
    THEN [ret |-> PyNone, file |-> f, out |-> <<"No posts to save.">>]
    ELSE LET df == DataFrame(all_posts.items)
             dd == [df EXCEPT !.rows = DropDuplicates(df.rows, "permalink")]
         IN [ret |-> dd,
             file |-> ToCsv(dd),
             out |-> <<"Removed duplicate posts.", "Saving cleaned posts",
                       "Data saved successfully">>]

-----------------------------------------------------------------------------
(* A caller of save_to_csv other than the driver: None, the empty list, or  *)
(* any list of up to MaxPosts records the two fetchers can build.           *)

SaveCall ==
    /\ spc = "idle"
    /\ \E arg \in {PyNone, PyList(<<>>)}
              \cup {PyList([k \in 1..Len(ps) |->
                              IF kinds[k] = "hot"
                              THEN HotRecord(ps[k], ML)
                              ELSE SearchRecord(ps[k], ML, GPT4)]) :
                      <<kinds, ps>> \in
                        UNION {[1..n -> {"hot", "search"}] \X [1..n -> SavePosts] :
                                 n \in 1..MaxPosts}} :
        LET s == SaveToCsv(arg, file)
        IN /\ save_arg' = arg
           /\ final_df' = s.ret
           /\ file' = s.file
           /\ console' = console \o s.out
    /\ spc' = "ret"
    /\ UNCHANGED <<fetchVars, reddit, driverVars>>

InitSave ==
    /\ InitCommon
    /\ reddit = [posts |-> SavePosts, cap |-> MaxPosts]
    /\ dpc = "off"
    /\ spc = "idle"
    /\ file \in {NoFile, StaleFile}

NextSave == SaveCall

SpecSave == InitSave /\ [][NextSave]_vars

InitFetch ==
    /\ InitCommon
    /\ reddit = [posts |-> FetchPosts, cap |-> MaxYield]
    /\ dpc = "off"
    /\ spc = "off"
    /\ file = NoFile

NextFetch ==
    \/ CallHot
    \/ CallSearch
    \/ SubredditOk
    \/ SubredditRaises
    \/ ListingOk
    \/ ListingRaises
    \/ NextPost
    \/ NextStop
    \/ NextRaises
    \/ FetchReturn
    \/ Finish

SpecFetch == InitFetch /\ [][NextFetch]_vars

-----------------------------------------------------------------------------
(* The __main__ driver. *)

\* subreddits = ["MachineLearning", "Artificial", "OpenAI"], abbreviated.
DriverSubreddits == PyList(<<ML, AI, OpenAI>>)

\* The fetcher's frame is gone once its caller holds the return value.
PopFrame ==
    /\ pc' = "idle"
    /\ fn' = "none"
    /\ query' = Unset
    /\ subreddit_names' = Unset
    /\ limit' = Unset
    /\ i' = 0
    /\ post_count' = 0
    /\ acc' = <<>>
    /\ result' = NoResult
    /\ calls' = <<>>

\* From the top of the script to reddit.user.me(): the env file is there or
\* not, and authentication succeeds or raises.
DriverStart ==
    /\ dpc = "config"
    /\ \E env_exists \in BOOLEAN, me_ok \in BOOLEAN :
        /\ config' = IF env_exists THEN "loaded" ELSE "empty"
        /\ IF me_ok
           THEN /\ dpc' = "hot"
                /\ crash' = crash
                /\ console' = console \o
                     <<IF env_exists THEN "Environment variables loaded"
                       ELSE "Error: not found", "Connected as">>
           ELSE /\ dpc' = "crashed"
                /\ crash' = "reddit.user.me()"
                /\ console' = console \o
                     <<IF env_exists THEN "Environment variables loaded"
                       ELSE "Error: not found">>
    /\ UNCHANGED <<fetchVars, reddit, hot_posts, search_results, all_collected,
                   saveVars, spc>>

\* hot_posts = download_hot_posts(reddit, subreddits): the call
DriverCallHot ==
    /\ dpc = "hot"
    /\ Enter("download_hot_posts", PyNone, DriverSubreddits, PyInt(DefaultLimit))
    /\ dpc' = "hot_wait"
    /\ UNCHANGED <<console, reddit, config, hot_posts, search_results,
                   all_collected, crash, saveVars, spc>>

\* hot_posts = download_hot_posts(reddit, subreddits): the assignment
DriverHotReturns ==
    /\ dpc = "hot_wait"
    /\ pc = "ret"
    /\ IF result.kind = "raise"
       THEN /\ dpc' = "crashed"
            /\ crash' = result.exc
            /\ hot_posts' = hot_posts
       ELSE /\ dpc' = "search"
            /\ crash' = crash
            /\ hot_posts' = result.val
    /\ PopFrame
    /\ UNCHANGED <<console, reddit, config, search_results, all_collected,
                   saveVars, spc>>

\* search_results = search_posts(reddit, "GPT-4", subreddits): the call
DriverCallSearch ==
    /\ dpc = "search"
    /\ Enter("search_posts", GPT4, DriverSubreddits, PyInt(DefaultLimit))
    /\ dpc' = "search_wait"
    /\ UNCHANGED <<console, reddit, config, hot_posts, search_results,
                   all_collected, crash, saveVars, spc>>

\* search_results = search_posts(reddit, "GPT-4", subreddits): the assignment
DriverSearchReturns ==
    /\ dpc = "search_wait"
    /\ pc = "ret"
    /\ IF result.kind = "raise"
       THEN /\ dpc' = "crashed"
            /\ crash' = result.exc
            /\ search_results' = search_results
       ELSE /\ dpc' = "concat"
            /\ crash' = crash
            /\ search_results' = result.val
    /\ PopFrame
    /\ UNCHANGED <<console, reddit, config, hot_posts, all_collected,
                   saveVars, spc>>

\* all_collected = hot_posts + search_results
DriverConcat ==
    /\ dpc = "concat"
    /\ LET sum == PyAdd(hot_posts, search_results)
       IN IF sum.ok
          THEN /\ all_collected' = sum.val
               /\ dpc' = "save"
               /\ crash' = crash
          ELSE /\ all_collected' = all_collected
               /\ dpc' = "crashed"
               /\ crash' = "TypeError"
    /\ UNCHANGED <<fetchVars, console, reddit, config, hot_posts,
                   search_results, saveVars, spc>>

\* final_df = save_to_csv(all_collected, filename="reddit_data.csv")
DriverSave ==
    /\ dpc = "save"
    /\ LET s == SaveToCsv(all_collected, file)
       IN /\ save_arg' = all_collected
          /\ final_df' = s.ret
          /\ file' = s.file
          /\ console' = console \o s.out
    /\ dpc' = "summary"
    /\ UNCHANGED <<fetchVars, reddit, config, hot_posts, search_results,
                   all_collected, crash, spc>>

\* if final_df is not None: the two summary prints
DriverSummary ==
    /\ dpc = "summary"
    /\ console' = IF final_df.t # "none"
                  THEN console \o <<"Final dataset shape", "Columns">>
                  ELSE console
    /\ dpc' = "done"
    /\ UNCHANGED <<fetchVars, reddit, config, hot_posts, search_results,
                   all_collected, crash, saveVars, spc>>

InitDriver ==
    /\ InitCommon
    /\ reddit = [posts |-> DriverPosts, cap |-> DriverMaxYield]
    /\ dpc = "config"
    /\ spc = "off"
    /\ file = NoFile

NextDriver ==
    \/ DriverStart
    \/ DriverCallHot
    \/ DriverHotReturns
    \/ DriverCallSearch
    \/ DriverSearchReturns
    \/ DriverConcat
    \/ DriverSave
    \/ DriverSummary
    \/ SubredditOk
    \/ SubredditRaises
    \/ ListingOk
    \/ ListingRaises
    \/ NextPost
    \/ NextStop
    \/ NextRaises
    \/ FetchReturn

SpecDriver == InitDriver /\ [][NextDriver]_vars

-----------------------------------------------------------------------------
(* Properties of the fetchers, checked under SpecFetch. *)

\* The arguments of the running call, judged by the contract's words.
InvalidNamesArg(v) ==
    \/ v.t # "list"
    \/ Len(v.items) = 0
    \/ \E k \in 1..Len(v.items) : v.items[k].t # "str" \/ Len(v.items[k].s) = 0
\* A bool is an int in Python, so True is a positive integer.
InvalidLimitArg(v) == v.t \notin {"int", "bool"} \/ ~(v.n > 0)
InvalidQueryArg(v) == v.t # "str" \/ Len(v.s) = 0
InvalidCall ==
    \/ InvalidNamesArg(subreddit_names)
    \/ InvalidLimitArg(limit)
    \/ (fn = "search_posts" /\ InvalidQueryArg(query))

Returned == pc = "ret" /\ result.kind = "return"
ReturnedList == Returned /\ result.val.t = "list"
\* The log entries of the posts the client yielded, in order.
Yielded == SelectSeq(calls, LAMBDA c : c.out = "yield")
RaisedAt == {k \in 1..Len(calls) : calls[k].out = "raise"}

\* C1: an invalid call of either fetcher (forum names empty or not a list, a
\* forum name empty or not a string, limit not an integer or <= 0, for
\* search_posts a query empty or not a string) raises to the caller, and no
\* call has been made on the client handle.
C1_InvalidCallRaisesBeforeClient ==
    (pc # "idle" /\ InvalidCall) =>
        /\ pc = "ret"
        /\ result.kind = "raise"
        /\ result.exc = "ValueError"
        /\ calls = <<>>

\* A search with a good query and good forum names but limit 0 has raised.
C1_Witness ==
    /\ pc = "ret"
    /\ fn = "search_posts"
    /\ ~InvalidQueryArg(query)
    /\ ~InvalidNamesArg(subreddit_names)
    /\ limit = PyInt(0)
    /\ result.kind = "raise"

\* C2, as claimed: no invocation of a fetcher lets an exception escape; each
\* ends by returning a list or False.
C2_NoExceptionEscapes ==
    pc = "ret" => (result.kind = "return" /\ result.val.t \in {"list", "bool"})

\* The line each class of exception is reported with.
C2_Message(e) ==
    IF e = "PRAWException" THEN "Reddit API error"
    ELSE IF e = "ValueError" THEN "Input validation error"
    ELSE IF e = "FileNotFoundError" THEN "File error"
    ELSE "Unexpected error"

\* C2, amended: an exception raised inside the try block (remote-API,
\* ValueError, file-system or unclassified) never escapes: it is reported on
\* the console and the fetcher returns False.  The ValueError of the input
\* validation does escape, and is the only exception that does: a call ends
\* by returning a list, returning False, or raising that ValueError, the
\* last exactly when the call is invalid.
C2_OnlyValidationEscapes ==
    pc = "ret" =>
        /\ result.kind \in {"return", "raise"}
        /\ (result.kind = "raise") <=> InvalidCall
        /\ result.kind = "raise" => result.exc = "ValueError" /\ RaisedAt = {}
        /\ result.kind = "return" => (result.val.t = "list" \/ result.val = PyFalse)
        /\ \A k \in RaisedAt :
              /\ result = Return(PyFalse)
              /\ console # <<>>
              /\ console[Len(console)] = C2_Message(calls[k].exc)

\* An unclassified exception of the client was turned into False.
C2_Witness ==
    /\ pc = "ret"
    /\ result = Return(PyFalse)
    /\ calls # <<>>
    /\ calls[Len(calls)].exc = "Exception"
    /\ console[Len(console)] = "Unexpected error"

\* C6: every record a fetcher returns has subreddit equal to the forum name
\* of the iteration that fetched it; every record of search_posts has
\* search_query equal to the call's query; no record of download_hot_posts
\* has a search_query field.
C6_CallerSuppliedFields ==
    ReturnedList =>
        /\ Len(result.val.items) = Len(Yielded)
        /\ \A k \in 1..Len(result.val.items) :
              LET rec == result.val.items[k]
              IN /\ rec.subreddit = subreddit_names.items[Yielded[k].forum]
                 /\ fn = "search_posts" =>
                       ("search_query" \in DOMAIN rec /\ rec.search_query = query)
                 /\ fn = "download_hot_posts" => "search_query" \notin DOMAIN rec

\* A search over two forums returned records of both, from posts whose own
\* subreddit is neither.
C6_Witness ==
    /\ ReturnedList
    /\ fn = "search_posts"
    /\ Len(result.val.items) >= 2
    /\ result.val.items[1].subreddit = ML
    /\ result.val.items[Len(result.val.items)].subreddit = AI
    /\ \A k \in 1..Len(Yielded) :
          Yielded[k].post[1].subreddit \notin {ML, AI}

\* C7: for a valid call, against a client whose listings yield at most limit
\* posts, the list returned is no longer than limit * number of forums and
\* holds one record per yielded post, in forum order then fetch order.
C7_LengthAndOrder ==
    ReturnedList =>
        /\ Len(result.val.items) <= limit.n * Len(subreddit_names.items)
        /\ Len(result.val.items) = Len(Yielded)
        /\ \A k \in 1..Len(Yielded) :
              LET rec == result.val.items[k]
                  post == Yielded[k].post[1]
              IN /\ rec.title = (IF Len(post.title.s) = 0 THEN PyNone ELSE post.title)
                 /\ rec.subreddit = subreddit_names.items[Yielded[k].forum]
        /\ \A j, k \in 1..Len(Yielded) : j < k => Yielded[j].forum <= Yielded[k].forum

\* Two forums, limit 2, both listings full, the two posts of a listing
\* different.
C7_Witness ==
    /\ ReturnedList
    /\ limit = PyInt(2)
    /\ Len(subreddit_names.items) = 2
    /\ Len(result.val.items) = 4
    /\ result.val.items[1].title # result.val.items[2].title

\* C10: a fetcher's result is all or nothing.  If the client raised while
\* forum k was being fetched, the fetcher returned False, returning none of
\* the records accumulated, and made no further call on the client; a list
\* is returned only when every forum was fetched to the end without error.
C10_AllOrNothing ==
    Returned =>
        /\ result.val.t = "list" \/ result.val = PyFalse
        /\ RaisedAt # {} => (result.val = PyFalse /\ RaisedAt = {Len(calls)})
        /\ result.val.t = "list" =>
              /\ RaisedAt = {}
              /\ \A f \in 1..Len(subreddit_names.items) :
                    \E k \in 1..Len(calls) :
                        calls[k].forum = f /\ calls[k].out = "stop"

\* Of two forums the first failed after a post had been accumulated.
C10_Witness ==
    /\ Returned
    /\ result.val = PyFalse
    /\ acc # <<>>
    /\ Len(subreddit_names.items) = 2
    /\ calls[Len(calls)].forum = 1
    /\ calls[Len(calls)].out = "raise"

-----------------------------------------------------------------------------
(* Properties of save_to_csv, checked under SpecSave. *)

\* A direct call of save_to_csv has returned, and its list was not empty.
SavedSome == spc = "ret" /\ save_arg.t = "list" /\ Len(save_arg.items) > 0

\* The input records that are the first to carry their permalink, and the
\* m-th of them.
FirstOfLink(inp) ==
    {k \in 1..Len(inp) : \A j \in 1..(k - 1) : inp[j].permalink # inp[k].permalink}
NthFirst(inp, m) ==
    CHOOSE k \in FirstOfLink(inp) :
        Cardinality({j \in FirstOfLink(inp) : j <= k}) = m

\* A record's field as a line of the file shows it.
FileField(line, header, col) ==
    line[CHOOSE c \in 1..Len(header) : header[c] = col]
Blank == PyStr(<<>>)

\* C4: for a non-empty list, the table save_to_csv writes and returns holds,
\* for each distinct permalink of the input, exactly the first record that
\* carries it, in the input's order.
C4_FirstOfEachPermalink ==
    SavedSome =>
        LET inp == save_arg.items
            kept == Cardinality(FirstOfLink(inp))
        IN /\ final_df.t = "DataFrame"
           /\ Len(final_df.rows) = kept
           /\ file.exists
           /\ Len(file.lines) = kept
           /\ \A m \in 1..kept :
                 LET rec == inp[NthFirst(inp, m)]
                 IN /\ \A c \in DOMAIN rec : final_df.rows[m][c] = rec[c]
                    /\ FileField(file.lines[m], file.header, "title")
                         = (IF rec.title.t = "none" THEN Blank ELSE rec.title)
                    /\ FileField(file.lines[m], file.header, "permalink")
                         = (IF rec.permalink.t = "none" THEN Blank ELSE rec.permalink)

\* A hot post followed by a search result under the same permalink: one row,
\* the hot post.
C4_Witness ==
    /\ SavedSome
    /\ Len(save_arg.items) = 2
    /\ "search_query" \notin DOMAIN save_arg.items[1]
    /\ "search_query" \in DOMAIN save_arg.items[2]
    /\ save_arg.items[1].permalink = save_arg.items[2].permalink
    /\ save_arg.items[1].title # save_arg.items[2].title
    /\ Len(final_df.rows) = 1
    /\ final_df.rows[1]["title"] = save_arg.items[1].title

\* C5: called with an empty or absent list, save_to_csv leaves the output
\* file, existing or not, as it was and returns None.
C5_EmptyInputNoWrite ==
    [][(/\ spc = "idle"
        /\ spc' = "ret"
        /\ (save_arg'.t = "none" \/ (save_arg'.t = "list" /\ Len(save_arg'.items) = 0)))
       => (file' = file /\ final_df'.t = "none")]_vars

\* The empty list was saved over an existing file, which is still there.
C5_Witness ==
    /\ spc = "ret"
    /\ save_arg = PyList(<<>>)
    /\ file = StaleFile
    /\ final_df.t = "none"

\* The 13 fields of a hot post, and with search_query the 14 of the data
\* model.
C8_HotFields ==
    <<"title", "score", "upvote_ratio", "num_comments", "author", "subreddit",
      "url", "permalink", "created_utc", "is_self", "selftext", "flair",
      "domain">>
C8_AllFields == C8_HotFields \o <<"search_query">>

\* C8, as claimed: whenever save_to_csv writes the file, its columns are the
\* 14 fields of the data model.
C8_ColumnsAlwaysSuperset ==
    SavedSome => file.header = C8_AllFields

\* C8, amended: the columns of the file are the fields the input records
\* carry: the 13 hot-post fields, and search_query exactly when some input
\* record is a search result (kept or not); then search_query is blank on
\* every row that came from the hot-post fetcher and holds the query on the
\* others.
C8_ColumnsOfInput ==
    SavedSome =>
        LET inp == save_arg.items
            searched == \E k \in 1..Len(inp) : "search_query" \in DOMAIN inp[k]
        IN /\ file.exists
           /\ file.header = (IF searched THEN C8_AllFields ELSE C8_HotFields)
           /\ \A m \in 1..Len(file.lines) : Len(file.lines[m]) = Len(file.header)
           /\ searched =>
                 \A m \in 1..Len(file.lines) :
                    LET rec == inp[NthFirst(inp, m)]
                    IN FileField(file.lines[m], file.header, "search_query")
                         = (IF "search_query" \in DOMAIN rec
                            THEN rec.search_query ELSE Blank)

\* A hot post and a search result under different permalinks: two rows, 14
\* columns, search_query blank on the first.
C8_Witness ==
    /\ SavedSome
    /\ Len(save_arg.items) = 2
    /\ "search_query" \notin DOMAIN save_arg.items[1]
    /\ "search_query" \in DOMAIN save_arg.items[2]
    /\ Len(file.lines) = 2
    /\ Len(file.header) = 14
    /\ FileField(file.lines[1], file.header, "search_query") = Blank
    /\ FileField(file.lines[2], file.header, "search_query") = GPT4

\* C9: the fetchers record a falsy permalink as the one missing marker, never
\* as an empty string, and save_to_csv treats the marker as one key: the
\* rows written are the distinct non-missing permalinks plus one if any
\* record lacks a permalink, that one being the first such record.
C9_MissingPermalinkIsOneKey ==
    SavedSome =>
        LET inp == save_arg.items
            missing == {k \in 1..Len(inp) : inp[k].permalink.t = "none"}
            links == {inp[k].permalink : k \in (1..Len(inp)) \ missing}
            rowsMissing == {m \in 1..Len(final_df.rows) :
                               final_df.rows[m]["permalink"].t = "none"}
        IN /\ \A k \in 1..Len(inp) : inp[k].permalink # Blank
           /\ Len(final_df.rows)
                = Cardinality(links) + (IF missing = {} THEN 0 ELSE 1)
           /\ Len(file.lines) = Len(final_df.rows)
           /\ missing # {} =>
                 /\ Cardinality(rowsMissing) = 1
                 /\ \A m \in rowsMissing :
                       LET first == CHOOSE k \in missing : \A j \in missing : k <= j
                       IN final_df.rows[m]["title"] = inp[first].title

\* Two different posts without a permalink were saved; one row is left.
C9_Witness ==
    /\ SavedSome
    /\ Len(save_arg.items) = 2
    /\ save_arg.items[1].permalink.t = "none"
    /\ save_arg.items[2].permalink.t = "none"
    /\ save_arg.items[1].title # save_arg.items[2].title
    /\ Len(file.lines) = 1

-----------------------------------------------------------------------------
(* Properties of the driver, checked under SpecDriver. *)

HotFailed == hot_posts = PyFalse
SearchFailed == search_results = PyFalse
\* The concatenation at line 212 has been executed.
Concatenated ==
    \/ dpc \in {"save", "summary", "done"}
    \/ (dpc = "crashed" /\ crash = "TypeError")

\* C3, as claimed: whenever at least one of the two fetches returned False,
\* both included, the concatenation fails and the run ends before
\* save_to_csv is called.
C3_AnyFalseCrashes ==
    (search_results # Unset /\ dpc # "concat" /\ (HotFailed \/ SearchFailed)) =>
        (dpc = "crashed" /\ crash = "TypeError" /\ save_arg = Unset)

\* C3, amended: when exactly one of the two fetches returned False, the
\* concatenation raises TypeError and the run ends before save_to_csv is
\* called.  When both returned False, False + False is 0: nothing is raised,
\* save_to_csv is called with 0, writes no file and returns None, and the
\* run completes.
C3_ExactlyOneFalseCrashes ==
    /\ (search_results # Unset /\ dpc # "concat" /\ HotFailed # SearchFailed) =>
          (dpc = "crashed" /\ crash = "TypeError" /\ save_arg = Unset /\ ~file.exists)
    /\ (dpc = "crashed" /\ crash = "TypeError") => HotFailed # SearchFailed
    /\ (Concatenated /\ HotFailed /\ SearchFailed) =>
          /\ dpc \in {"save", "summary", "done"}
          /\ all_collected = PyInt(0)
          /\ ~file.exists
          /\ dpc \in {"summary", "done"} =>
                (save_arg = PyInt(0) /\ final_df.t = "none")

\* The hot fetch returned posts, the search returned False, and the run has
\* ended on the TypeError.
C3_Witness ==
    /\ dpc = "crashed"
    /\ crash = "TypeError"
    /\ hot_posts.t = "list"
    /\ Len(hot_posts.items) > 0
    /\ SearchFailed

====
